---- MODULE Spec2Model ----
(***************************************************************************)
(* A model of python_chess/chess_logic.py: the GameState (board, side to   *)
(* move, logs, king locations, castle rights, material, en-passant square, *)
(* draw trackers), its move generator and make_move / undo_move.           *)
(*                                                                         *)
(* A piece is the pair <<colour, type>> ("wK" is <<"w", "K">>, so that the *)
(* code's piece[0] and piece[1] are p[1] and p[2]); the empty square ""    *)
(* and the empty tuple () are both <<>>.  A square (row, column) is the    *)
(* pair <<row, column>>, rows and columns counted from 0 as in the code.   *)
(***************************************************************************)
EXTENDS Integers, Sequences, FiniteSets, TLC

VARIABLES board, white_move, move_log, white_king_location,
          black_king_location, in_check, pins, checks, en_passant_square,
          current_castle_rights, castle_rights_log, white_material,
          black_material, draw_log, valid_moves,
          board_history, checker, drawn, rights, answer, named

vars == <<board, white_move, move_log, white_king_location,
          black_king_location, in_check, pins, checks, en_passant_square,
          current_castle_rights, castle_rights_log, white_material,
          black_material, draw_log, valid_moves,
          board_history, checker, drawn, rights, answer, named>>

\* board_history is a history variable, no field of the program: the board
\* after each move of move_log, the initial board first.  checker is a
\* DrawChecker object on its own and drawn the value check_for_draw
\* returned for it (<<>> before the call).  rights is a CastleRights object
\* on its own and answer the token colour_can_castle was last called with
\* on it, paired with the outcome of the call; named is the last square
\* get_rank_file was called with, with the name it returned (<<>> before
\* the first call of each).

-----------------------------------------------------------------------------
(* Bounds of the exploration *)

\* free plies the caller may play after the end of a recorded game
FreePly == 0

\* update_checker calls made on the DrawChecker object on its own
MaxPlies == 101

\* times the first board is recorded in the DrawChecker object on its own
MaxOccurrences == 3

-----------------------------------------------------------------------------
(* Constants of the program *)

dimensions == 8
InitialMaterial == 39
PromotionBonus == 8
DrawMoveCounter == 100
RepetitionCount == 3

Idx == 0 .. (dimensions - 1)

wK == <<"w", "K">>
bK == <<"b", "K">>
wp == <<"w", "p">>
bp == <<"b", "p">>

\* GameState.values
values(t) ==
    CASE t = "Q" -> 9
      [] t = "R" -> 5
      [] t = "B" -> 3
      [] t = "N" -> 3
      [] t = "p" -> 1
      [] t = "promotion" -> 8
      [] t = "K" -> 10000

\* a row of the board literal, columns counted from 0
BoardRow(s) == [c \in Idx |-> s[c + 1]]

InitialBoard ==
    [r \in Idx |->
        CASE r = 0 -> BoardRow(<< <<"b","R">>, <<"b","N">>, <<"b","B">>, <<"b","Q">>,
                                  <<"b","K">>, <<"b","B">>, <<"b","N">>, <<"b","R">> >>)
          [] r = 1 -> [c \in Idx |-> bp]
          [] r = 6 -> [c \in Idx |-> wp]
          [] r = 7 -> BoardRow(<< <<"w","R">>, <<"w","N">>, <<"w","B">>, <<"w","Q">>,
                                  <<"w","K">>, <<"w","B">>, <<"w","N">>, <<"w","R">> >>)
          [] OTHER -> [c \in Idx |-> <<>>]]

\* str.startswith(colour) on a square's content
StartsWith(p, colour) == p # <<>> /\ p[1] = colour

OnBoard(r, c) == 0 <= r /\ r < dimensions /\ 0 <= c /\ c < dimensions

\* concatenation of a sequence of sequences, in order
RECURSIVE Flatten(_)
Flatten(ss) == IF ss = <<>> THEN <<>> ELSE Head(ss) \o Flatten(Tail(ss))

-----------------------------------------------------------------------------
(* class Move *)

Move(start, end, b, is_en_passant, is_castle) ==
    LET piece_moved == b[start[1]][start[2]]
    IN  [start_row |-> start[1], start_column |-> start[2],
         end_row |-> end[1], end_column |-> end[2],
         piece_moved |-> piece_moved,
         piece_captured |-> IF is_en_passant THEN b[start[1]][end[2]]
                                             ELSE b[end[1]][end[2]],
         is_pawn_promotion |-> (piece_moved = wp /\ end[1] = 0)
                               \/ (piece_moved = bp /\ end[1] = 7),
         is_en_passant |-> is_en_passant,
         is_castle |-> is_castle,
         king_side_castle |-> is_castle /\ (end[2] - start[2] = 2),
         queen_side_castle |-> is_castle /\ ~(end[2] - start[2] = 2)]

MoveStart(m) == <<m.start_row, m.start_column>>
MoveEnd(m) == <<m.end_row, m.end_column>>

\* the keys of the two dict literals of class Move, in the order written
RankKeys == <<"1", "2", "3", "4", "5", "6", "7", "8">>
FileKeys == <<"a", "b", "c", "d", "e", "f", "g", "h">>

\* a dict literal with the keys of the sequence keys mapped to first,
\* first + step, ...
Dict(keys, first, step) ==
    [k \in {keys[n] : n \in 1 .. Len(keys)} |->
        first + step * ((CHOOSE n \in 1 .. Len(keys) : keys[n] = k) - 1)]

\* the dict comprehension {v: k for k, v in d.items()}, the items taken in
\* the order of keys: of two keys with one value the later one stays
Inverted(d, keys) ==
    [v \in {d[k] : k \in DOMAIN d} |->
        keys[CHOOSE n \in 1 .. Len(keys) :
                /\ d[keys[n]] = v
                /\ \A later \in (n + 1) .. Len(keys) : d[keys[later]] # v]]

\* ranks_to_rows with the ranks counted from Black's side
ranks_to_rows_from_black == Dict(RankKeys, 0, 1)

\* Move.ranks_to_rows, Move.rows_to_ranks
ranks_to_rows == Dict(RankKeys, 7, -1)

rows_to_ranks == Inverted(ranks_to_rows, RankKeys)

\* Move.files_to_columns, Move.columns_to_files
files_to_columns == Dict(FileKeys, 0, 1)

columns_to_files == Inverted(files_to_columns, FileKeys)

\* the two characters of the name, file first
get_rank_file(row, column) == <<columns_to_files[column], rows_to_ranks[row]>>

-----------------------------------------------------------------------------
(* class CastleRights *)

CastleRights(wks, bks, wqs, bqs) ==
    [white_king_side |-> wks, black_king_side |-> bks,
     white_queen_side |-> wqs, black_queen_side |-> bqs]

update_castle_rights(cr, move) ==
    IF move.piece_moved = wK
    THEN [cr EXCEPT !.white_king_side = FALSE, !.white_queen_side = FALSE]
    ELSE IF move.piece_moved = bK
    THEN [cr EXCEPT !.black_king_side = FALSE, !.black_queen_side = FALSE]
    ELSE IF MoveStart(move) = <<7, 7>> \/ MoveEnd(move) = <<7, 7>>
    THEN [cr EXCEPT !.white_king_side = FALSE]
    ELSE IF MoveStart(move) = <<7, 0>> \/ MoveEnd(move) = <<7, 0>>
    THEN [cr EXCEPT !.white_queen_side = FALSE]
    ELSE IF MoveStart(move) = <<0, 7>> \/ MoveEnd(move) = <<0, 7>>
    THEN [cr EXCEPT !.black_king_side = FALSE]
    ELSE IF MoveStart(move) = <<0, 0>> \/ MoveEnd(move) = <<0, 0>>
    THEN [cr EXCEPT !.black_queen_side = FALSE]
    ELSE cr

can_castle(cr) ==
    cr.white_king_side \/ cr.black_king_side
    \/ cr.white_queen_side \/ cr.black_queen_side

\* colour_can_castle without its last branch: the call returns None
colour_can_castle_falls_through(cr, turn) ==
    IF turn = "w" THEN <<"returned", cr.white_king_side \/ cr.white_queen_side>>
    ELSE IF turn = "b"
    THEN <<"returned", cr.black_king_side \/ cr.black_queen_side>>
    ELSE <<"returned", "None">>

\* the outcome of colour_can_castle: the value returned or the exception
\* raised
colour_can_castle(cr, turn) ==
    IF turn = "w" THEN <<"returned", cr.white_king_side \/ cr.white_queen_side>>
    ELSE IF turn = "b"
    THEN <<"returned", cr.black_king_side \/ cr.black_queen_side>>
    ELSE <<"raised", "ValueError">>

-----------------------------------------------------------------------------
(* class DrawChecker *)

DrawChecker(b, move_counter) ==
    [past_boards |-> (b :> 1), move_counter |-> move_counter]

\* update_checker that records the board as seen once
update_checker_forgets(dc, b, move_counter) ==
    [past_boards |->
        IF b \in DOMAIN dc.past_boards
        THEN [dc.past_boards EXCEPT ![b] = 1]
        ELSE dc.past_boards @@ (b :> 1),
     move_counter |-> dc.move_counter + move_counter]

update_checker(dc, b, move_counter) ==
    [past_boards |->
        IF b \in DOMAIN dc.past_boards
        THEN [dc.past_boards EXCEPT ![b] = @ + 1]
        ELSE dc.past_boards @@ (b :> 1),
     move_counter |-> dc.move_counter + move_counter]

check_for_draw(dc) ==
    (\E b \in DOMAIN dc.past_boards : dc.past_boards[b] >= RepetitionCount)
    \/ dc.move_counter = DrawMoveCounter

-----------------------------------------------------------------------------
(* class GameState: the analyzer.  A game state g is the record of the     *)
(* object's fields.                                                        *)

\* the 8 ray directions of check_for_pins_checks, j counted from 0
directions ==
    << <<-1, -1>>, <<-1, 1>>, <<1, -1>>, <<1, 1>>,
       <<-1, 0>>, <<0, -1>>, <<1, 0>>, <<0, 1>> >>

knight_moves ==
    << <<-2, -1>>, <<-2, 1>>, <<-1, -2>>, <<-1, 2>>,
       <<1, -2>>, <<1, 2>>, <<2, -1>>, <<2, 1>> >>

king_moves ==
    << <<-1, -1>>, <<-1, 0>>, <<-1, 1>>, <<0, -1>>,
       <<0, 1>>, <<1, 0>>, <<1, -1>>, <<1, 1>> >>

NoHit == [kind |-> "none", entry |-> <<>>]

\* CanCheck without the pawn
CanCheckNoPawn(type, i, j, opponent_colour) ==
    \/ (0 <= j /\ j < 4 /\ type = "B")
    \/ (4 <= j /\ j < 8 /\ type = "R")
    \/ type = "Q"
    \/ (i = 1 /\ type = "K")

\* whether a piece of this type, i squares away in direction j, attacks
CanCheck(type, i, j, opponent_colour) ==
    \/ (0 <= j /\ j < 4 /\ type = "B")
    \/ (4 <= j /\ j < 8 /\ type = "R")
    \/ type = "Q"
    \/ (i = 1 /\ type = "K")
    \/ (i = 1 /\ type = "p"
        /\ ((opponent_colour = "w" /\ j \in {2, 3})
            \/ (opponent_colour = "b" /\ j \in {0, 1})))

\* the inner loop of check_for_pins_checks for direction j, from step i on
RECURSIVE ScanDirection(_, _, _, _, _, _, _)
ScanDirection(b, turn_colour, opponent_colour, start, j, i, possible_pin) ==
    LET direction == directions[j + 1]
        counter_row == start[1] + direction[1] * i
        counter_column == start[2] + direction[2] * i
    IN  IF i >= 8 \/ ~OnBoard(counter_row, counter_column) THEN NoHit
        ELSE LET end_piece == b[counter_row][counter_column]
                 here == <<counter_row, counter_column, direction[1], direction[2]>>
             IN  IF end_piece = <<>>
                 THEN ScanDirection(b, turn_colour, opponent_colour, start, j,
                                    i + 1, possible_pin)
                 ELSE IF end_piece[1] = turn_colour /\ end_piece[2] # "K"
                 THEN IF possible_pin = <<>>
                      THEN ScanDirection(b, turn_colour, opponent_colour, start,
                                         j, i + 1, here)
                      ELSE NoHit
                 ELSE IF end_piece[1] = opponent_colour
                 THEN IF CanCheck(end_piece[2], i, j, opponent_colour)
                      THEN IF possible_pin = <<>>
                           THEN [kind |-> "check", entry |-> here]
                           ELSE [kind |-> "pin", entry |-> possible_pin]
                      ELSE NoHit
                 \* the side's own king: neither branch, the ray goes on
                 ELSE ScanDirection(b, turn_colour, opponent_colour, start, j,
                                    i + 1, possible_pin)

Entries(hits, kind) ==
    LET s == SelectSeq(hits, LAMBDA h : h.kind = kind)
    IN  [k \in 1 .. Len(s) |-> s[k].entry]

KingLocation(g) ==
    IF g.white_move THEN g.white_king_location ELSE g.black_king_location

check_for_pins_checks(g) ==
    LET opponent_colour == IF g.white_move THEN "b" ELSE "w"
        turn_colour == IF g.white_move THEN "w" ELSE "b"
        start == KingLocation(g)
        rays == [k \in 1 .. 8 |->
                    ScanDirection(g.board, turn_colour, opponent_colour, start,
                                  k - 1, 1, <<>>)]
        knights == [k \in 1 .. 8 |->
                      LET counter_row == start[1] + knight_moves[k][1]
                          counter_column == start[2] + knight_moves[k][2]
                      IN  IF OnBoard(counter_row, counter_column)
                             /\ g.board[counter_row][counter_column]
                                  = <<opponent_colour, "N">>
                          THEN [kind |-> "check",
                                entry |-> <<counter_row, counter_column,
                                            knight_moves[k][1], knight_moves[k][2]>>]
                          ELSE NoHit]
        found == Entries(rays, "check") \o Entries(knights, "check")
    IN  [in_check |-> found # <<>>,
         pins |-> Entries(rays, "pin"),
         checks |-> found]

-----------------------------------------------------------------------------
(* class GameState: the move generator *)

\* range(a, b) and range(a, b, -1) as sets of columns
Range(a, b) == a .. (b - 1)
RangeDown(a, b) == (b + 1) .. a

\* the generators without their look into self.pins: no piece is pinned
PinDirectionNone(g, row, column) == <<>>

\* the search of self.pins for the piece on (row, column): its pin
\* direction, or <<>> when the piece is not pinned
PinDirection(g, row, column) ==
    LET s == SelectSeq(g.pins, LAMBDA pin : pin[1] = row /\ pin[2] = column)
    IN  IF s = <<>> THEN <<>> ELSE <<s[1][3], s[1][4]>>

\* the "weird en passant bug" scan of get_pawn_moves: TRUE when the en
\* passant capture towards column + side is appended
EnPassantAllowed(g, row, column, side, ep_row, opponent) ==
    LET king == KingLocation(g)
        king_column == king[2]
        inside_range ==
            IF king_column < column
            THEN (IF side = -1 THEN Range(king_column + 1, column - 1)
                               ELSE Range(king_column + 1, column))
            ELSE (IF side = -1 THEN RangeDown(king_column - 1, column)
                               ELSE RangeDown(king_column - 1, column + 1))
        outside_range ==
            IF king_column < column
            THEN (IF side = -1 THEN Range(column + 1, 8)
                               ELSE Range(column + 2, 8))
            ELSE (IF side = -1 THEN RangeDown(column - 2, -1)
                               ELSE RangeDown(column - 1, -1))
        scanned == king[1] = row /\ row = ep_row
        attacking_piece ==
            scanned /\ \E i \in outside_range :
                          /\ StartsWith(g.board[row][i], opponent)
                          /\ g.board[row][i][2] \in {"R", "Q"}
        blocking_piece ==
            scanned /\ (\/ \E i \in inside_range : g.board[row][i] # <<>>
                        \/ \E i \in outside_range :
                              /\ g.board[row][i] # <<>>
                              /\ ~StartsWith(g.board[row][i], opponent))
    IN  ~attacking_piece \/ blocking_piece

get_pawn_moves(g, row, column) ==
    LET pin_direction == PinDirection(g, row, column)
        piece_pinned == pin_direction # <<>>
        forward == IF g.white_move THEN -1 ELSE 1
        opponent == IF g.white_move THEN "b" ELSE "w"
        start_row == IF g.white_move THEN 6 ELSE 1
        ep_row == IF g.white_move THEN 3 ELSE 4
        advance ==
            IF g.board[row + forward][column] = <<>>
               /\ (~piece_pinned \/ pin_direction = <<forward, 0>>)
            THEN <<Move(<<row, column>>, <<row + forward, column>>, g.board,
                        FALSE, FALSE)>>
                 \o (IF row = start_row
                        /\ g.board[row + 2 * forward][column] = <<>>
                     THEN <<Move(<<row, column>>, <<row + 2 * forward, column>>,
                                 g.board, FALSE, FALSE)>>
                     ELSE <<>>)
            ELSE <<>>
        capture(side) ==
            IF ~(0 <= column + side /\ column + side < dimensions) THEN <<>>
            ELSE IF StartsWith(g.board[row + forward][column + side], opponent)
            THEN IF ~piece_pinned \/ pin_direction = <<forward, side>>
                 THEN <<Move(<<row, column>>, <<row + forward, column + side>>,
                             g.board, FALSE, FALSE)>>
                 ELSE <<>>
            ELSE IF <<row + forward, column + side>> = g.en_passant_square
            THEN IF (~piece_pinned \/ pin_direction = <<forward, side>>)
                    /\ EnPassantAllowed(g, row, column, side, ep_row, opponent)
                 THEN <<Move(<<row, column>>, <<row + forward, column + side>>,
                             g.board, TRUE, FALSE)>>
                 ELSE <<>>
            ELSE <<>>
    IN  advance \o capture(-1) \o capture(1)

\* the moves of a sliding piece along one direction, from step i on
RECURSIVE SlideMoves(_, _, _, _, _, _)
SlideMoves(g, row, column, direction, opponent, i) ==
    LET counter_row == row + direction[1] * i
        counter_column == column + direction[2] * i
    IN  IF i >= 8 \/ ~OnBoard(counter_row, counter_column) THEN <<>>
        ELSE LET piece == g.board[counter_row][counter_column]
                 m == Move(<<row, column>>, <<counter_row, counter_column>>,
                           g.board, FALSE, FALSE)
             IN  IF piece # <<>>
                 THEN (IF StartsWith(piece, opponent) THEN <<m>> ELSE <<>>)
                 ELSE <<m>> \o SlideMoves(g, row, column, direction, opponent,
                                          i + 1)

\* the shared body of get_rook_moves and get_bishop_moves
SliderMoves(g, row, column, dirs) ==
    LET pin_direction == PinDirection(g, row, column)
        piece_pinned == pin_direction # <<>>
        opponent == IF g.white_move THEN "b" ELSE "w"
    IN  Flatten([k \in 1 .. Len(dirs) |->
            IF ~piece_pinned
               \/ pin_direction = dirs[k]
               \/ pin_direction = <<-dirs[k][1], -dirs[k][2]>>
            THEN SlideMoves(g, row, column, dirs[k], opponent, 1)
            ELSE <<>>])

get_rook_moves(g, row, column) ==
    SliderMoves(g, row, column, << <<-1, 0>>, <<0, -1>>, <<1, 0>>, <<0, 1>> >>)

get_bishop_moves(g, row, column) ==
    SliderMoves(g, row, column, << <<-1, -1>>, <<1, -1>>, <<1, 1>>, <<-1, 1>> >>)

get_queen_moves(g, row, column) ==
    get_rook_moves(g, row, column) \o get_bishop_moves(g, row, column)

get_knight_moves(g, row, column) ==
    LET piece_pinned == PinDirection(g, row, column) # <<>>
        opponent == IF g.white_move THEN "b" ELSE "w"
    IN  Flatten([k \in 1 .. 8 |->
            LET move_row == row + knight_moves[k][1]
                move_column == column + knight_moves[k][2]
            IN  IF OnBoard(move_row, move_column) /\ ~piece_pinned
                   /\ (g.board[move_row][move_column] = <<>>
                       \/ StartsWith(g.board[move_row][move_column], opponent))
                THEN <<Move(<<row, column>>, <<move_row, move_column>>, g.board,
                            FALSE, FALSE)>>
                ELSE <<>>])

\* the probe of get_king_moves: the king location of the side to move is
\* set to the candidate square while check_for_pins_checks runs
WithKingAt(g, square) ==
    IF g.white_move THEN [g EXCEPT !.white_king_location = square]
                    ELSE [g EXCEPT !.black_king_location = square]

get_king_moves(g, row, column) ==
    LET turn == IF g.white_move THEN "w" ELSE "b"
    IN  Flatten([k \in 1 .. 8 |->
            LET move_row == row + king_moves[k][1]
                move_column == column + king_moves[k][2]
            IN  IF OnBoard(move_row, move_column)
                   /\ ~StartsWith(g.board[move_row][move_column], turn)
                   /\ ~check_for_pins_checks(
                          WithKingAt(g, <<move_row, move_column>>)).in_check
                THEN <<Move(<<row, column>>, <<move_row, move_column>>, g.board,
                            FALSE, FALSE)>>
                ELSE <<>>])

RECURSIVE get_all_moves(_, _)

\* the side to move is switched while the opponent's moves are generated
square_attacked(g, square) ==
    LET opponents_moves ==
            get_all_moves([g EXCEPT !.white_move = ~g.white_move], TRUE)
    IN  \E k \in 1 .. Len(opponents_moves) :
            MoveEnd(opponents_moves[k]) = square

king_in_check(g) == square_attacked(g, KingLocation(g))

\* get_castle_moves without its queen-side half
get_castle_moves_king_side_only(g, row, column, turn_colour) ==
    IF /\ ~g.in_check
       /\ \/ g.white_move /\ g.current_castle_rights.white_king_side
          \/ ~g.white_move /\ g.current_castle_rights.black_king_side
       /\ g.board[row][column + 1] = <<>> /\ g.board[row][column + 2] = <<>>
       /\ ~square_attacked(g, <<row, column + 1>>)
       /\ ~square_attacked(g, <<row, column + 2>>)
    THEN <<Move(<<row, column>>, <<row, column + 2>>, g.board, FALSE, TRUE)>>
    ELSE <<>>

get_castle_moves(g, row, column, turn_colour) ==
    LET get_king_castle_moves ==
            IF g.board[row][column + 1] = <<>> /\ g.board[row][column + 2] = <<>>
               /\ ~square_attacked(g, <<row, column + 1>>)
               /\ ~square_attacked(g, <<row, column + 2>>)
            THEN <<Move(<<row, column>>, <<row, column + 2>>, g.board,
                        FALSE, TRUE)>>
            ELSE <<>>
        get_queen_castle_moves ==
            IF g.board[row][column - 1] = <<>> /\ g.board[row][column - 2] = <<>>
               /\ g.board[row][column - 3] = <<>>
               /\ ~square_attacked(g, <<row, column - 1>>)
               /\ ~square_attacked(g, <<row, column - 2>>)
            THEN <<Move(<<row, column>>, <<row, column - 2>>, g.board,
                        FALSE, TRUE)>>
            ELSE <<>>
    IN  IF g.in_check THEN <<>>
        ELSE (IF (g.white_move /\ g.current_castle_rights.white_king_side)
                 \/ (~g.white_move /\ g.current_castle_rights.black_king_side)
              THEN get_king_castle_moves ELSE <<>>)
             \o
             (IF (g.white_move /\ g.current_castle_rights.white_queen_side)
                 \/ (~g.white_move /\ g.current_castle_rights.black_queen_side)
              THEN get_queen_castle_moves ELSE <<>>)

get_all_moves(g, for_square_under_attack) ==
    LET turn == IF g.white_move THEN "w" ELSE "b"
    IN  Flatten([k \in 1 .. (dimensions * dimensions) |->
            LET row == (k - 1) \div dimensions
                column == (k - 1) % dimensions
                colour_piece == g.board[row][column]
            IN  IF colour_piece = <<>> \/ colour_piece[1] # turn THEN <<>>
                ELSE CASE colour_piece[2] = "p" -> get_pawn_moves(g, row, column)
                       [] colour_piece[2] = "R" -> get_rook_moves(g, row, column)
                       [] colour_piece[2] = "B" -> get_bishop_moves(g, row, column)
                       [] colour_piece[2] = "N" -> get_knight_moves(g, row, column)
                       [] colour_piece[2] = "Q" -> get_queen_moves(g, row, column)
                       [] colour_piece[2] = "K" ->
                            get_king_moves(g, row, column)
                            \o (IF for_square_under_attack THEN <<>>
                                ELSE get_castle_moves(g, row, column, turn))])

\* the king location of the side to move when get_king_moves returns:
\* every probe sets it to the probed square and then back to (row, column)
KingLeftOnProbe(g, row, column) ==
    LET turn == IF g.white_move THEN "w" ELSE "b"
        probed == {k \in 1 .. 8 :
                     /\ OnBoard(row + king_moves[k][1], column + king_moves[k][2])
                     /\ ~StartsWith(g.board[row + king_moves[k][1]]
                                           [column + king_moves[k][2]], turn)}
        last == CHOOSE k \in probed : \A n \in probed : n <= k
    IN  IF probed = {} THEN KingLocation(g)
        ELSE <<row + king_moves[last][1], column + king_moves[last][2]>>

KingAfterProbes(g, row, column) ==
    LET turn == IF g.white_move THEN "w" ELSE "b"
        probed == {k \in 1 .. 8 :
                     /\ OnBoard(row + king_moves[k][1], column + king_moves[k][2])
                     /\ ~StartsWith(g.board[row + king_moves[k][1]]
                                           [column + king_moves[k][2]], turn)}
    IN  IF probed = {} THEN KingLocation(g) ELSE <<row, column>>

\* the squares get_all_moves visits as the king of the side to move
KingsVisited(g) ==
    {s \in Idx \X Idx :
        g.board[s[1]][s[2]] = <<IF g.white_move THEN "w" ELSE "b", "K">>}

\* the last of them in the order of the visit, row by row
LastVisited(kings) ==
    CHOOSE s \in kings :
        \A t \in kings : t[1] * dimensions + t[2] <= s[1] * dimensions + s[2]

\* the object after get_all_moves has called get_king_moves
AfterKingVisit(g) ==
    IF KingsVisited(g) = {} THEN g
    ELSE LET s == LastVisited(KingsVisited(g))
         IN  WithKingAt(g, KingAfterProbes(g, s[1], s[2]))

\* get_castle_moves comes to call square_attacked
AttackQueried(g, row, column) ==
    /\ ~g.in_check
    /\ \/ /\ \/ g.white_move /\ g.current_castle_rights.white_king_side
             \/ ~g.white_move /\ g.current_castle_rights.black_king_side
          /\ g.board[row][column + 1] = <<>>
          /\ g.board[row][column + 2] = <<>>
       \/ /\ \/ g.white_move /\ g.current_castle_rights.white_queen_side
             \/ ~g.white_move /\ g.current_castle_rights.black_queen_side
          /\ g.board[row][column - 1] = <<>>
          /\ g.board[row][column - 2] = <<>>
          /\ g.board[row][column - 3] = <<>>

\* the object after square_attacked: the side to move is switched, the
\* opponent's moves are generated, and the side to move is switched again
AfterSquareAttacked(g) ==
    LET generated == AfterKingVisit([g EXCEPT !.white_move = ~g.white_move])
    IN  [generated EXCEPT !.white_move = ~generated.white_move]

\* the object after get_all_moves() of the side to move
AfterAllMoves(g) ==
    LET visited == AfterKingVisit(g)
    IN  IF KingsVisited(g) = {} THEN visited
        ELSE LET s == LastVisited(KingsVisited(g))
             IN  IF AttackQueried(visited, s[1], s[2])
                 THEN AfterSquareAttacked(visited)
                 ELSE visited

\* the loop of get_valid_moves over the squares from the king towards the
\* checking piece, from step i on: it stops at the edge of the board and
\* after the checking piece's square
RECURSIVE CheckLine(_, _, _)
CheckLine(king, check, i) ==
    LET square == <<king[1] + check[3] * i, king[2] + check[4] * i>>
    IN  IF i >= 8 \/ ~OnBoard(square[1], square[2]) THEN {}
        ELSE {square} \cup (IF square = <<check[1], check[2]>> THEN {}
                            ELSE CheckLine(king, check, i + 1))

\* valid_squares without the filter: every square of the board
ValidSquaresAnywhere(g, check) == Idx \X Idx

\* the squares a non-king move may end on when one piece gives check
ValidSquares(g, check) ==
    LET piece_checking == g.board[check[1]][check[2]]
    IN  IF piece_checking[2] = "N" THEN {<<check[1], check[2]>>}
        ELSE CheckLine(KingLocation(g), check, 1)

\* get_valid_moves without the double-check case: any check is answered
\* as a single check by the first piece found
get_valid_moves_first_check_only(g) ==
    LET found == check_for_pins_checks(g)
        g1 == [g EXCEPT !.in_check = found.in_check, !.pins = found.pins,
                        !.checks = found.checks]
        king == KingLocation(g)
        moves ==
            IF found.in_check
            THEN IF TRUE
                 THEN LET valid_squares == ValidSquares(g1, found.checks[1])
                      IN  SelectSeq(get_all_moves(g1, FALSE),
                                    LAMBDA move :
                                        move.piece_moved[2] = "K"
                                        \/ MoveEnd(move) \in valid_squares)
                 ELSE get_king_moves(g1, king[1], king[2])
            ELSE get_all_moves(g1, FALSE)
        after ==
            IF found.in_check /\ Len(found.checks) # 1
            THEN WithKingAt(g1, KingAfterProbes(g1, king[1], king[2]))
            ELSE AfterAllMoves(g1)
    IN  [moves |-> moves,
         in_check |-> found.in_check,
         pins |-> IF found.in_check /\ Len(found.checks) # 1 THEN found.pins
                  ELSE <<>>,
         checks |-> found.checks,
         white_move |-> after.white_move,
         white_king_location |-> after.white_king_location,
         black_king_location |-> after.black_king_location]

\* get_valid_moves: the returned list and the fields it assigns.
\* Every piece that get_all_moves visits removes its own entry from
\* self.pins, so the list is empty afterwards; on a double check only
\* get_king_moves runs and the list is left as computed.
get_valid_moves(g) ==
    LET found == check_for_pins_checks(g)
        g1 == [g EXCEPT !.in_check = found.in_check, !.pins = found.pins,
                        !.checks = found.checks]
        king == KingLocation(g)
        moves ==
            IF found.in_check
            THEN IF Len(found.checks) = 1
                 THEN LET valid_squares == ValidSquares(g1, found.checks[1])
                      IN  SelectSeq(get_all_moves(g1, FALSE),
                                    LAMBDA move :
                                        move.piece_moved[2] = "K"
                                        \/ MoveEnd(move) \in valid_squares)
                 ELSE get_king_moves(g1, king[1], king[2])
            ELSE get_all_moves(g1, FALSE)
        after ==
            IF found.in_check /\ Len(found.checks) # 1
            THEN WithKingAt(g1, KingAfterProbes(g1, king[1], king[2]))
            ELSE AfterAllMoves(g1)
    IN  [moves |-> moves,
         in_check |-> found.in_check,
         pins |-> IF found.in_check /\ Len(found.checks) # 1 THEN found.pins
                  ELSE <<>>,
         checks |-> found.checks,
         white_move |-> after.white_move,
         white_king_location |-> after.white_king_location,
         black_king_location |-> after.black_king_location]

-----------------------------------------------------------------------------
(* class GameState: make_move and undo_move *)

SetSquare(b, row, column, piece) == [b EXCEPT ![row][column] = piece]

\* the board after make_move's updates, in the order of the code
BoardAfterMove(b, move, promotion_type) ==
    LET b1 == SetSquare(SetSquare(b, move.start_row, move.start_column, <<>>),
                        move.end_row, move.end_column, move.piece_moved)
        b2 == IF move.is_pawn_promotion
              THEN SetSquare(b1, move.end_row, move.end_column,
                             <<move.piece_moved[1], promotion_type>>)
              ELSE IF move.is_en_passant
              THEN SetSquare(b1, move.start_row, move.end_column, <<>>)
              ELSE b1
    IN  IF move.king_side_castle
        THEN SetSquare(SetSquare(b2, move.end_row, move.end_column - 1,
                                 b2[move.end_row][move.end_column + 1]),
                       move.end_row, move.end_column + 1, <<>>)
        ELSE IF move.queen_side_castle
        THEN SetSquare(SetSquare(b2, move.end_row, move.end_column + 1,
                                 b2[move.end_row][move.end_column - 2]),
                       move.end_row, move.end_column - 2, <<>>)
        ELSE b2

Abs(x) == IF x < 0 THEN -x ELSE x

\* make_move without the test for an advance of two squares
EnPassantAfterPawnMove(move) ==
    IF move.piece_moved[2] = "p"
    THEN <<(move.start_row + move.end_row) \div 2, move.end_column>>
    ELSE <<>>

\* the en-passant square make_move leaves
EnPassantAfter(move) ==
    IF move.piece_moved[2] = "p" /\ Abs(move.start_row - move.end_row) = 2
    THEN <<(move.start_row + move.end_row) \div 2, move.end_column>>
    ELSE <<>>

\* the castle rights make_move leaves
CastleRightsAfter(cr, move) ==
    IF can_castle(cr) THEN update_castle_rights(cr, move) ELSE cr

\* make_move with the counter reset on pawn moves only
DrawCheckerAfterPawnOnly(dc, b, move) ==
    LET new_draw_checker == update_checker(dc, b, 1)
    IN  IF move.piece_moved[2] = "p"
        THEN [new_draw_checker EXCEPT !.move_counter = 0]
        ELSE new_draw_checker

\* the draw tracker make_move appends
DrawCheckerAfter(dc, b, move) ==
    LET fifty_move_rule_reset ==
            move.piece_captured # <<>> \/ move.piece_moved[2] = "p"
        new_draw_checker == update_checker(dc, b, 1)
    IN  IF fifty_move_rule_reset
        THEN [new_draw_checker EXCEPT !.move_counter = 0]
        ELSE new_draw_checker

\* what make_move subtracts for the piece taken
CapturedValue(move) ==
    IF move.piece_captured # <<>> THEN values(move.piece_captured[2]) ELSE 0

\* what make_move adds for a promotion
PromotionValue(move, promotion_type) ==
    IF move.is_pawn_promotion THEN PromotionBonus ELSE 0

make_move(g, move, promotion_type) ==
    LET captured == CapturedValue(move)
        promoted == PromotionValue(move, promotion_type)
        new_board == BoardAfterMove(g.board, move, promotion_type)
        new_rights == CastleRightsAfter(g.current_castle_rights, move)
    IN  [g EXCEPT
            !.board = new_board,
            !.move_log = Append(@, move),
            !.white_king_location =
                IF move.piece_moved = wK THEN MoveEnd(move) ELSE @,
            !.black_king_location =
                IF move.piece_moved = bK THEN MoveEnd(move) ELSE @,
            !.white_material =
                IF g.white_move THEN @ + promoted ELSE @ - captured,
            !.black_material =
                IF g.white_move THEN @ - captured ELSE @ + promoted,
            !.en_passant_square = EnPassantAfter(move),
            !.current_castle_rights = new_rights,
            !.castle_rights_log = Append(@, new_rights),
            !.white_move = ~g.white_move,
            !.draw_log = Append(@, DrawCheckerAfter(@[Len(@)], new_board, move))]

\* the board after undo_move's updates, in the order of the code
BoardAfterUndo(b, move) ==
    LET b1 == SetSquare(SetSquare(b, move.start_row, move.start_column,
                                  move.piece_moved),
                        move.end_row, move.end_column, move.piece_captured)
        b2 == IF move.is_en_passant
              THEN SetSquare(SetSquare(b1, move.end_row, move.end_column, <<>>),
                             move.start_row, move.end_column, move.piece_captured)
              ELSE b1
    IN  IF move.king_side_castle
        THEN SetSquare(SetSquare(b2, move.end_row, move.end_column + 1,
                                 b2[move.end_row][move.end_column - 1]),
                       move.end_row, move.end_column - 1, <<>>)
        ELSE IF move.queen_side_castle
        THEN SetSquare(SetSquare(b2, move.end_row, move.end_column - 2,
                                 b2[move.end_row][move.end_column + 1]),
                       move.end_row, move.end_column + 1, <<>>)
        ELSE b2

\* undo_move that clears the en-passant square
EnPassantClearedByUndo(ep, move) == <<>>

\* the en-passant square undo_move leaves
EnPassantAfterUndo(ep, move) ==
    IF move.is_en_passant THEN MoveEnd(move) ELSE ep

\* undo_move without "self.draw_log.pop()"
undo_move_keeps_draw_log(g) ==
    IF g.move_log = <<>> THEN g
    ELSE
    LET move == g.move_log[Len(g.move_log)]
        \* the side to move after "self.white_move = not self.white_move"
        mover_white == ~g.white_move
        captured == IF move.piece_captured # <<>>
                    THEN values(move.piece_captured[2]) ELSE 0
        promoted == IF move.is_pawn_promotion THEN PromotionBonus ELSE 0
        rights_log == SubSeq(g.castle_rights_log, 1, Len(g.castle_rights_log) - 1)
    IN  [g EXCEPT
            !.board = BoardAfterUndo(g.board, move),
            !.move_log = SubSeq(@, 1, Len(@) - 1),
            !.white_king_location =
                IF move.piece_moved = wK THEN MoveStart(move) ELSE @,
            !.black_king_location =
                IF move.piece_moved = bK THEN MoveStart(move) ELSE @,
            !.white_move = mover_white,
            !.en_passant_square = EnPassantAfterUndo(@, move),
            !.castle_rights_log = rights_log,
            !.current_castle_rights = rights_log[Len(rights_log)],
            !.white_material =
                IF mover_white THEN @ - promoted ELSE @ + captured,
            !.black_material =
                IF mover_white THEN @ + captured ELSE @ - promoted,
            !.draw_log = @]

\* undo_move that pops castle_rights_log and leaves current_castle_rights
undo_move_keeps_rights(g) ==
    IF g.move_log = <<>> THEN g
    ELSE
    LET move == g.move_log[Len(g.move_log)]
        \* the side to move after "self.white_move = not self.white_move"
        mover_white == ~g.white_move
        captured == IF move.piece_captured # <<>>
                    THEN values(move.piece_captured[2]) ELSE 0
        promoted == IF move.is_pawn_promotion THEN PromotionBonus ELSE 0
        rights_log == SubSeq(g.castle_rights_log, 1, Len(g.castle_rights_log) - 1)
    IN  [g EXCEPT
            !.board = BoardAfterUndo(g.board, move),
            !.move_log = SubSeq(@, 1, Len(@) - 1),
            !.white_king_location =
                IF move.piece_moved = wK THEN MoveStart(move) ELSE @,
            !.black_king_location =
                IF move.piece_moved = bK THEN MoveStart(move) ELSE @,
            !.white_move = mover_white,
            !.en_passant_square = EnPassantAfterUndo(@, move),
            !.castle_rights_log = rights_log,
            !.current_castle_rights = @,
            !.white_material =
                IF mover_white THEN @ - promoted ELSE @ + captured,
            !.black_material =
                IF mover_white THEN @ + captured ELSE @ - promoted,
            !.draw_log = SubSeq(@, 1, Len(@) - 1)]

undo_move(g) ==
    IF g.move_log = <<>> THEN g
    ELSE
    LET move == g.move_log[Len(g.move_log)]
        \* the side to move after "self.white_move = not self.white_move"
        mover_white == ~g.white_move
        captured == IF move.piece_captured # <<>>
                    THEN values(move.piece_captured[2]) ELSE 0
        promoted == IF move.is_pawn_promotion THEN PromotionBonus ELSE 0
        rights_log == SubSeq(g.castle_rights_log, 1, Len(g.castle_rights_log) - 1)
    IN  [g EXCEPT
            !.board = BoardAfterUndo(g.board, move),
            !.move_log = SubSeq(@, 1, Len(@) - 1),
            !.white_king_location =
                IF move.piece_moved = wK THEN MoveStart(move) ELSE @,
            !.black_king_location =
                IF move.piece_moved = bK THEN MoveStart(move) ELSE @,
            !.white_move = mover_white,
            !.en_passant_square = EnPassantAfterUndo(@, move),
            !.castle_rights_log = rights_log,
            !.current_castle_rights = rights_log[Len(rights_log)],
            !.white_material =
                IF mover_white THEN @ - promoted ELSE @ + captured,
            !.black_material =
                IF mover_white THEN @ + captured ELSE @ - promoted,
            !.draw_log = SubSeq(@, 1, Len(@) - 1)]

-----------------------------------------------------------------------------
(* The state machine *)

\* the GameState object as a record of its fields
GS ==
    [board |-> board, white_move |-> white_move, move_log |-> move_log,
     white_king_location |-> white_king_location,
     black_king_location |-> black_king_location,
     in_check |-> in_check, pins |-> pins, checks |-> checks,
     en_passant_square |-> en_passant_square,
     current_castle_rights |-> current_castle_rights,
     castle_rights_log |-> castle_rights_log,
     white_material |-> white_material, black_material |-> black_material,
     draw_log |-> draw_log]

\* GameState.__init__ with white_move = False
NewGameStateBlackToMove ==
    [board |-> InitialBoard, white_move |-> FALSE, move_log |-> <<>>,
     white_king_location |-> <<7, 4>>,
     black_king_location |-> <<0, 4>>,
     in_check |-> FALSE, pins |-> <<>>, checks |-> <<>>,
     en_passant_square |-> <<>>,
     current_castle_rights |-> CastleRights(TRUE, TRUE, TRUE, TRUE),
     castle_rights_log |-> <<CastleRights(TRUE, TRUE, TRUE, TRUE)>>,
     white_material |-> InitialMaterial, black_material |-> InitialMaterial,
     draw_log |-> <<DrawChecker(InitialBoard, 0)>>]

\* GameState.__init__
NewGameState ==
    [board |-> InitialBoard, white_move |-> TRUE, move_log |-> <<>>,
     white_king_location |-> <<7, 4>>,
     black_king_location |-> <<0, 4>>,
     in_check |-> FALSE, pins |-> <<>>, checks |-> <<>>,
     en_passant_square |-> <<>>,
     current_castle_rights |-> CastleRights(TRUE, TRUE, TRUE, TRUE),
     castle_rights_log |-> <<CastleRights(TRUE, TRUE, TRUE, TRUE)>>,
     white_material |-> InitialMaterial, black_material |-> InitialMaterial,
     draw_log |-> <<DrawChecker(InitialBoard, 0)>>]

\* the fields of the object become those of the record g
Becomes(g) ==
    /\ board' = g.board
    /\ white_move' = g.white_move
    /\ move_log' = g.move_log
    /\ white_king_location' = g.white_king_location
    /\ black_king_location' = g.black_king_location
    /\ in_check' = g.in_check
    /\ pins' = g.pins
    /\ checks' = g.checks
    /\ en_passant_square' = g.en_passant_square
    /\ current_castle_rights' = g.current_castle_rights
    /\ castle_rights_log' = g.castle_rights_log
    /\ white_material' = g.white_material
    /\ black_material' = g.black_material
    /\ draw_log' = g.draw_log

Init ==
    /\ board = NewGameState.board
    /\ white_move = NewGameState.white_move
    /\ move_log = NewGameState.move_log
    /\ white_king_location = NewGameState.white_king_location
    /\ black_king_location = NewGameState.black_king_location
    /\ in_check = NewGameState.in_check
    /\ pins = NewGameState.pins
    /\ checks = NewGameState.checks
    /\ en_passant_square = NewGameState.en_passant_square
    /\ current_castle_rights = NewGameState.current_castle_rights
    /\ castle_rights_log = NewGameState.castle_rights_log
    /\ white_material = NewGameState.white_material
    /\ black_material = NewGameState.black_material
    /\ draw_log = NewGameState.draw_log
    /\ valid_moves = <<>>
    /\ board_history = <<NewGameState.board>>
    /\ checker = DrawChecker(0, 0)
    /\ drawn = <<>>
    /\ rights = CastleRights(TRUE, TRUE, TRUE, TRUE)
    /\ answer = <<>>
    /\ named = <<>>

PromotionTypes == {"Q", "R", "B", "N"}

\* the coordinates of a move, as a recorded game writes it
Coordinates(m) == <<m.start_row, m.start_column, m.end_row, m.end_column>>

\* Recorded games, each move written <<start row, start column, end row,
\* end column>>.

\* no recorded move: free play from the initial position
FromTheStart == <<>>

\* a black pawn reaches h2, beside the square g1 of White's king-side castle;
\* White castles
\*   h2h4 g7g5 h4g5 h7h5 g1f3 h5h4 e2e3 h4h3 f1e2 h3h2
\*   e1g1
CastleBesidePawn ==
    <<
      <<6, 7, 4, 7>>, <<1, 6, 3, 6>>, <<4, 7, 3, 6>>, <<1, 7, 3, 7>>,
      <<7, 6, 5, 5>>, <<3, 7, 4, 7>>, <<6, 4, 5, 4>>, <<4, 7, 5, 7>>,
      <<7, 5, 6, 4>>, <<5, 7, 6, 7>>, <<7, 4, 7, 6>>
    >>

\* the rook from h1 takes the rook on h8 and goes back; Black clears f8 and
\* g8 and castles
\*   h2h4 g7g5 h4g5 h7h6 g1f3 h6g5 h1h8 g8f6 h8h1 f8g7
\*   a2a3 e8g8
RookTakesRook ==
    <<
      <<6, 7, 4, 7>>, <<1, 6, 3, 6>>, <<4, 7, 3, 6>>, <<1, 7, 2, 7>>,
      <<7, 6, 5, 5>>, <<2, 7, 3, 6>>, <<7, 7, 0, 7>>, <<0, 6, 2, 5>>,
      <<0, 7, 7, 7>>, <<0, 5, 1, 6>>, <<6, 0, 5, 0>>, <<0, 4, 0, 6>>
    >>

\* a black pawn advances two squares beside the white pawn on e5, which
\* takes it en passant
\*   e2e4 a7a6 e4e5 d7d5 e5d6
EnPassantGame ==
    <<
      <<6, 4, 4, 4>>, <<1, 0, 2, 0>>, <<4, 4, 3, 4>>, <<1, 3, 3, 3>>,
      <<3, 4, 2, 3>>
    >>

\* a white pawn reaches e7 and promotes by taking the queen on d8; the king
\* takes the new piece
\*   h2h4 g7g5 h4g5 g8f6 g5f6 a7a6 f6e7 a6a5 e7d8 e8d8
PromotionGame ==
    <<
      <<6, 7, 4, 7>>, <<1, 6, 3, 6>>, <<4, 7, 3, 6>>, <<0, 6, 2, 5>>,
      <<3, 6, 2, 5>>, <<1, 0, 2, 0>>, <<2, 5, 1, 4>>, <<2, 0, 3, 0>>,
      <<1, 4, 0, 3>>, <<0, 4, 0, 3>>
    >>

\* the knight leaves the e-file for d6: check by knight and queen; the king
\* steps aside
\*   e2e4 d7d5 e4d5 e7e5 d2d4 e5d4 b1c3 a7a6 c3e4 a6a5
\*   d1e2 h7h6 e4d6 e8d7
DoubleCheckGame ==
    <<
      <<6, 4, 4, 4>>, <<1, 3, 3, 3>>, <<4, 4, 3, 3>>, <<1, 4, 3, 4>>,
      <<6, 3, 4, 3>>, <<3, 4, 4, 3>>, <<7, 1, 5, 2>>, <<1, 0, 2, 0>>,
      <<5, 2, 4, 4>>, <<2, 0, 3, 0>>, <<7, 3, 6, 4>>, <<1, 7, 2, 7>>,
      <<4, 4, 2, 3>>, <<0, 4, 1, 3>>
    >>

\* the pawn advancing to d5 gives check to the king on e4, beside the pawn
\* on e5
\*   e2e4 a7a6 e4e5 a6a5 e1e2 a5a4 e2e3 a4a3 e3e4 d7d5
\*   e4d4
CheckingPawnGame ==
    <<
      <<6, 4, 4, 4>>, <<1, 0, 2, 0>>, <<4, 4, 3, 4>>, <<2, 0, 3, 0>>,
      <<7, 4, 6, 4>>, <<3, 0, 4, 0>>, <<6, 4, 5, 4>>, <<4, 0, 5, 0>>,
      <<5, 4, 4, 4>>, <<1, 3, 3, 3>>, <<4, 4, 4, 3>>
    >>

\* the black pawn on e7 is pinned by the queen on e8 to its king on e5
\*   c2c3 d7d6 h2h3 e8d7 h3h4 d7e6 d1a4 e6e5 a4e8 d8e8
PinnedPawnGame ==
    <<
      <<6, 2, 5, 2>>, <<1, 3, 2, 3>>, <<6, 7, 5, 7>>, <<0, 4, 1, 3>>,
      <<5, 7, 4, 7>>, <<1, 3, 2, 4>>, <<7, 3, 4, 0>>, <<2, 4, 3, 4>>,
      <<4, 0, 0, 4>>, <<0, 3, 0, 4>>
    >>

\* both sides keep king and rooks at home and clear the back rank; White
\* castles queen side and Black king side
\*   e2e4 e7e5 g1f3 g8f6 f1c4 f8c5 d2d3 d7d6 c1e3 c8e6
\*   b1c3 b8c6 d1d2 d8d7 e1c1 e8g8
BothCastlesGame ==
    <<
      <<6, 4, 4, 4>>, <<1, 4, 3, 4>>, <<7, 6, 5, 5>>, <<0, 6, 2, 5>>,
      <<7, 5, 4, 2>>, <<0, 5, 3, 2>>, <<6, 3, 5, 3>>, <<1, 3, 2, 3>>,
      <<7, 2, 5, 4>>, <<0, 2, 2, 4>>, <<7, 1, 5, 2>>, <<0, 1, 2, 2>>,
      <<7, 3, 6, 3>>, <<0, 3, 1, 3>>, <<7, 4, 7, 2>>, <<0, 4, 0, 6>>
    >>

\* the white king stands on e4 beside the black pawn on f4, steps back to d3,
\* and the pawn on e2 advances two squares: moves a caller may take back
\*   d2d4 f7f5 e1d2 f5f4 d2d3 a7a6 d3e4 a6a5 e4d3 h7h6
\*   e2e4
TakenBackGame ==
    <<
      <<6, 3, 4, 3>>, <<1, 5, 3, 5>>, <<7, 4, 6, 3>>, <<3, 5, 4, 5>>,
      <<6, 3, 5, 3>>, <<1, 0, 2, 0>>, <<5, 3, 4, 4>>, <<2, 0, 3, 0>>,
      <<4, 4, 5, 3>>, <<1, 7, 2, 7>>, <<6, 4, 4, 4>>
    >>

\* the first seven moves of TakenBackGame, then the pawn on f4 to e3: a move
\* the list holds only after TakenBackGame's last four moves were taken back
\*   d2d4 f7f5 e1d2 f5f4 d2d3 a7a6 d3e4 f4e3
AfterTakingBack ==
    <<
      <<6, 3, 4, 3>>, <<1, 5, 3, 5>>, <<7, 4, 6, 3>>, <<3, 5, 4, 5>>,
      <<6, 3, 5, 3>>, <<1, 0, 2, 0>>, <<5, 3, 4, 4>>, <<4, 5, 5, 4>>
    >>

\* the pawn on d2 to e3: a move the list holds only after the first move
\* e2e4 of another game was taken back
\*   d2e3
OwnPawnTakenGame ==
    <<
      <<6, 3, 5, 4>>
    >>

\* a bishop check answered by a block, the blocking bishop then pinned
\* until it takes the pinning bishop
\*   e2e4 d7d5 f1b5 c8d7 a2a3 d7b5
PinAndBlockGame ==
    <<
      <<6, 4, 4, 4>>, <<1, 3, 3, 3>>, <<7, 5, 3, 1>>, <<0, 2, 1, 3>>,
      <<6, 0, 5, 0>>, <<1, 3, 3, 1>>
    >>

\* the black king on g4 and the white queen on a4 on one rank, the pawns
\* d4 and e4 and the white pawn b4 between them, e4 just advanced two squares
\*   c2c3 d7d5 b2b4 d5d4 a2a3 e8d7 a1a2 d7e6 a2b2 e6f5 d1a4 f5g4 e2e4
RankPinGame ==
    <<
      <<6, 2, 5, 2>>, <<1, 3, 3, 3>>, <<6, 1, 4, 1>>, <<3, 3, 4, 3>>,
      <<6, 0, 5, 0>>, <<0, 4, 1, 3>>, <<7, 0, 6, 0>>, <<1, 3, 2, 4>>,
      <<6, 0, 6, 1>>, <<2, 4, 3, 5>>, <<7, 3, 4, 0>>, <<3, 5, 4, 6>>,
      <<6, 4, 4, 4>>
    >>

\* the knights go out and back twice, so that the initial board stands
\* three times, and a pawn advances
\*   g1f3 g8f6 f3g1 f6g8 g1f3 g8f6 f3g1 f6g8 e2e4
ShuffleGame ==
    <<
      <<7, 6, 5, 5>>, <<0, 6, 2, 5>>, <<5, 5, 7, 6>>, <<2, 5, 0, 6>>,
      <<7, 6, 5, 5>>, <<0, 6, 2, 5>>, <<5, 5, 7, 6>>, <<2, 5, 0, 6>>,
      <<6, 4, 4, 4>>
    >>

\* the recorded games the caller replays from the initial position
Games ==
    <<FromTheStart, CastleBesidePawn, RookTakesRook, EnPassantGame,
      PromotionGame, DoubleCheckGame, CheckingPawnGame, PinnedPawnGame,
      BothCastlesGame, TakenBackGame, AfterTakingBack, PinAndBlockGame,
      RankPinGame, ShuffleGame, OwnPawnTakenGame>>

\* the caller's choice: the next move of a recorded game that starts with
\* the moves made so far, or any move for FreePly plies after its end
CallerPlays(log, m) ==
    \E n \in 1 .. Len(Games) :
        LET game == Games[n]
            common == IF Len(log) < Len(game) THEN Len(log) ELSE Len(game)
        IN  /\ \A k \in 1 .. common : Coordinates(log[k]) = game[k]
            /\ IF Len(log) < Len(game)
               THEN Coordinates(m) = game[Len(log) + 1]
               ELSE Len(log) < Len(game) + FreePly

\* the caller asks for the legal moves and keeps the returned list
GetValidMoves ==
    LET r == get_valid_moves(GS)
    IN  /\ valid_moves' = r.moves
        /\ in_check' = r.in_check
        /\ pins' = r.pins
        /\ checks' = r.checks
        /\ white_move' = r.white_move
        /\ white_king_location' = r.white_king_location
        /\ black_king_location' = r.black_king_location
        /\ UNCHANGED <<board, move_log, en_passant_square,
                       current_castle_rights, castle_rights_log,
                       white_material, black_material, draw_log,
                       board_history, checker, drawn, rights, answer,
                       named>>

\* the caller makes one of the moves of the list it was given
MakeMove ==
    \E k \in 1 .. Len(valid_moves) :
        \E promotion_type \in PromotionTypes \cup {""} :
            LET move == valid_moves[k]
            IN  /\ CallerPlays(move_log, move)
                /\ (promotion_type # "") = move.is_pawn_promotion
                /\ Becomes(make_move(GS, move, promotion_type))
                /\ valid_moves' = <<>>
                /\ board_history' = Append(board_history, board')
                /\ UNCHANGED <<checker, drawn, rights, answer, named>>

\* the history without the board of the move taken back
Taken(history, log) ==
    IF log = <<>> THEN history ELSE SubSeq(history, 1, Len(history) - 1)

\* undo_move that switches the side to move before it looks at the log
UndoMoveUnguarded ==
    /\ Becomes([undo_move(GS) EXCEPT
                  !.white_move = IF move_log = <<>> THEN ~@ ELSE @])
    /\ valid_moves' = <<>>
    /\ board_history' = Taken(board_history, move_log)
    /\ UNCHANGED <<checker, drawn, rights, answer, named>>

UndoMove ==
    /\ Becomes(undo_move(GS))
    /\ valid_moves' = <<>>
    /\ board_history' = Taken(board_history, move_log)
    /\ UNCHANGED <<checker, drawn, rights, answer, named>>

Next == GetValidMoves \/ MakeMove \/ UndoMove

Spec == Init /\ [][Next]_vars

\* play without undo
NextPlay == GetValidMoves \/ MakeMove

SpecPlay == Init /\ [][NextPlay]_vars

\* the caller drops the game and constructs a GameState anew
NewGame ==
    /\ Becomes(NewGameState)
    /\ valid_moves' = <<>>
    /\ board_history' = <<NewGameState.board>>
    /\ UNCHANGED <<checker, drawn, rights, answer, named>>

\* play without undo, with new games
NextGames == NewGame \/ GetValidMoves \/ MakeMove

SpecGames == Init /\ [][NextGames]_vars

\* A DrawChecker object on its own.  update_checker and check_for_draw use
\* a board only as the key of past_boards, so here a board content is a
\* number: 0 the board the object was made with, the others in the order
\* they are first recorded.

GameUntouched ==
    UNCHANGED <<board, white_move, move_log, white_king_location,
                black_king_location, in_check, pins, checks,
                en_passant_square, current_castle_rights, castle_rights_log,
                white_material, black_material, draw_log, valid_moves,
                board_history>>

\* make_move's "new_draw_checker.update_checker(self.board, 1)", with the
\* first board again or with a board not recorded before
UpdateChecker ==
    \E b \in {0, Cardinality(DOMAIN checker.past_boards)} :
        /\ checker.move_counter < MaxPlies
        /\ b = 0 => checker.past_boards[0] < MaxOccurrences
        /\ checker' = update_checker(checker, b, 1)
        /\ drawn' = <<>>
        /\ GameUntouched
        /\ UNCHANGED <<rights, answer, named>>

CheckForDraw ==
    /\ drawn' = <<check_for_draw(checker)>>
    /\ UNCHANGED checker
    /\ GameUntouched
    /\ UNCHANGED <<rights, answer, named>>

NextDraw == UpdateChecker \/ CheckForDraw

SpecDraw == Init /\ [][NextDraw]_vars

\* A CastleRights object on its own and the naming of squares.  The tokens
\* colour_can_castle is called with: the two colours, and strings a caller
\* might pass for them.

Tokens == {"w", "b", "W", "B", "white", "black", "wK", ""}

OthersUntouched ==
    /\ GameUntouched
    /\ UNCHANGED <<checker, drawn>>

\* CastleRights(white_king_side, black_king_side, white_queen_side,
\* black_queen_side)
NewCastleRights ==
    \E wks \in BOOLEAN, bks \in BOOLEAN, wqs \in BOOLEAN, bqs \in BOOLEAN :
        /\ rights' = CastleRights(wks, bks, wqs, bqs)
        /\ answer' = <<>>
        /\ UNCHANGED named
        /\ OthersUntouched

ColourCanCastle ==
    \E turn \in Tokens :
        /\ answer' = <<turn, colour_can_castle(rights, turn)>>
        /\ UNCHANGED <<rights, named>>
        /\ OthersUntouched

GetRankFile ==
    \E row \in Idx, column \in Idx :
        /\ named' = <<row, column, get_rank_file(row, column)>>
        /\ UNCHANGED <<rights, answer>>
        /\ OthersUntouched

NextQueries == NewCastleRights \/ ColourCanCastle \/ GetRankFile

SpecQueries == Init /\ [][NextQueries]_vars

-----------------------------------------------------------------------------
(* The rules of chess, as the properties below state them: written from    *)
(* the rules, not from the code.                                           *)

Squares == Idx \X Idx

Sign(x) == IF x < 0 THEN -1 ELSE IF x > 0 THEN 1 ELSE 0

Max(x, y) == IF x < y THEN y ELSE x

Opponent(colour) == IF colour = "w" THEN "b" ELSE "w"

SideToMove(g) == IF g.white_move THEN "w" ELSE "b"

\* the squares strictly between two squares of one rank, file or diagonal
Between(from, to) ==
    LET n == Max(Abs(to[1] - from[1]), Abs(to[2] - from[2]))
    IN  {<<from[1] + Sign(to[1] - from[1]) * i,
           from[2] + Sign(to[2] - from[2]) * i>> : i \in 1 .. (n - 1)}

OnOneLine(from, to) == from[1] = to[1] \/ from[2] = to[2]

OnOneDiagonal(from, to) == Abs(to[1] - from[1]) = Abs(to[2] - from[2])

ClearBetween(b, from, to) == \A s \in Between(from, to) : b[s[1]][s[2]] = <<>>

\* the piece on `from` attacks the square `to`
AttacksFrom(b, from, to) ==
    LET piece == b[from[1]][from[2]]
        dr == to[1] - from[1]
        dc == to[2] - from[2]
    IN  /\ piece # <<>>
        /\ from # to
        /\ CASE piece[2] = "p" ->
                   dr = (IF piece[1] = "w" THEN -1 ELSE 1) /\ Abs(dc) = 1
             [] piece[2] = "N" -> {Abs(dr), Abs(dc)} = {1, 2}
             [] piece[2] = "K" -> Max(Abs(dr), Abs(dc)) = 1
             [] piece[2] = "R" -> OnOneLine(from, to) /\ ClearBetween(b, from, to)
             [] piece[2] = "B" ->
                   OnOneDiagonal(from, to) /\ ClearBetween(b, from, to)
             [] piece[2] = "Q" ->
                   (OnOneLine(from, to) \/ OnOneDiagonal(from, to))
                   /\ ClearBetween(b, from, to)
             [] OTHER -> FALSE

\* the squares whose piece, of colour `by`, attacks `square`
Attackers(b, square, by) ==
    {from \in Squares :
        StartsWith(b[from[1]][from[2]], by) /\ AttacksFrom(b, from, square)}

\* the squares that hold the king of a colour
KingSquares(b, colour) == {s \in Squares : b[s[1]][s[2]] = <<colour, "K">>}

\* no king of this colour stands attacked
KingSafe(b, colour) ==
    \A s \in KingSquares(b, colour) : Attackers(b, s, Opponent(colour)) = {}

PromotionChoices(move) ==
    IF move.is_pawn_promotion THEN PromotionTypes ELSE {""}

\* the moves of the list the caller holds, as a set
ValidMoves == {valid_moves[k] : k \in 1 .. Len(valid_moves)}

LastMove == move_log[Len(move_log)]

\* the home row of a colour's pieces and the direction its pawns advance
HomeRow(colour) == IF colour = "w" THEN 7 ELSE 0
Forward(colour) == IF colour = "w" THEN -1 ELSE 1

HasRight(cr, colour, wing) ==
    CASE colour = "w" /\ wing = "king" -> cr.white_king_side
      [] colour = "w" /\ wing = "queen" -> cr.white_queen_side
      [] colour = "b" /\ wing = "king" -> cr.black_king_side
      [] colour = "b" /\ wing = "queen" -> cr.black_queen_side

\* the rook's corner, the squares between king and rook, and the squares
\* the king stands on, passes over and lands on, for a castle on a wing
RookCorner(colour, wing) == <<HomeRow(colour), IF wing = "king" THEN 7 ELSE 0>>
CastleBetween(colour, wing) ==
    {<<HomeRow(colour), c>> : c \in IF wing = "king" THEN {5, 6} ELSE {1, 2, 3}}
CastlePassing(colour, wing) == <<HomeRow(colour), IF wing = "king" THEN 5 ELSE 3>>
CastleDestination(colour, wing) ==
    <<HomeRow(colour), IF wing = "king" THEN 6 ELSE 2>>

\* an en passant capture from `from` to `to`, by the rules
EnPassantRule(g, from, to) ==
    LET colour == SideToMove(g)
    IN  /\ g.board[from[1]][from[2]] = <<colour, "p">>
        /\ to = <<from[1] + Forward(colour), to[2]>>
        /\ Abs(to[2] - from[2]) = 1
        /\ to = g.en_passant_square
        /\ g.board[to[1]][to[2]] = <<>>
        /\ g.board[from[1]][to[2]] = <<Opponent(colour), "p">>

\* a castle from `from` to `to`, by the rules
CastleRule(g, from, to) ==
    LET colour == SideToMove(g)
    IN  \E wing \in {"king", "queen"} :
            /\ from = <<HomeRow(colour), 4>>
            /\ to = CastleDestination(colour, wing)
            /\ g.board[from[1]][from[2]] = <<colour, "K">>
            /\ HasRight(g.current_castle_rights, colour, wing)
            /\ g.board[RookCorner(colour, wing)[1]][RookCorner(colour, wing)[2]]
                 = <<colour, "R">>
            /\ \A s \in CastleBetween(colour, wing) : g.board[s[1]][s[2]] = <<>>
            /\ \A s \in {from, CastlePassing(colour, wing), to} :
                  Attackers(g.board, s, Opponent(colour)) = {}

\* the piece on `from` may go to `to` by its movement rule
MovementRule(g, from, to) ==
    LET b == g.board
        piece == b[from[1]][from[2]]
        colour == SideToMove(g)
        target == b[to[1]][to[2]]
        f == Forward(colour)
    IN  /\ StartsWith(piece, colour)
        /\ IF piece[2] = "p"
           THEN \/ to = <<from[1] + f, from[2]>> /\ target = <<>>
                \/ /\ from[1] = HomeRow(colour) + f
                   /\ to = <<from[1] + 2 * f, from[2]>>
                   /\ b[from[1] + f][from[2]] = <<>>
                   /\ target = <<>>
                \/ /\ to[1] = from[1] + f
                   /\ Abs(to[2] - from[2]) = 1
                   /\ StartsWith(target, Opponent(colour))
                \/ EnPassantRule(g, from, to)
           ELSE \/ AttacksFrom(b, from, to) /\ ~StartsWith(target, colour)
                \/ CastleRule(g, from, to)

\* the board after the move, by the rules
RuleBoardAfter(g, from, to) ==
    LET b1 == SetSquare(SetSquare(g.board, from[1], from[2], <<>>),
                        to[1], to[2], g.board[from[1]][from[2]])
    IN  IF EnPassantRule(g, from, to)
        THEN SetSquare(b1, from[1], to[2], <<>>)
        ELSE b1

\* the rules-legal moves of the side to move, as coordinates
LegalMoves(g) ==
    {<<ft[1][1], ft[1][2], ft[2][1], ft[2][2]>> :
        ft \in {x \in Squares \X Squares :
                  /\ MovementRule(g, x[1], x[2])
                  /\ KingSafe(RuleBoardAfter(g, x[1], x[2]), SideToMove(g))}}

-----------------------------------------------------------------------------
(* The properties *)

\* what make_move followed by undo_move has to restore
Restored(g, h) ==
    /\ h.board = g.board
    /\ h.white_move = g.white_move
    /\ h.white_king_location = g.white_king_location
    /\ h.black_king_location = g.black_king_location
    /\ h.current_castle_rights = g.current_castle_rights
    /\ h.white_material = g.white_material
    /\ h.black_material = g.black_material
    /\ h.en_passant_square = g.en_passant_square

\* C1: in every state reached by make_move of returned moves, for every
\* move m of the list get_valid_moves returned, make_move(m) followed by
\* undo_move() restores the board, the side to move, both king locations,
\* the castle rights, both material totals and the en-passant square.
C1_MakeUndoRestores ==
    \A move \in ValidMoves :
        \A promotion_type \in PromotionChoices(move) :
            Restored(GS, undo_move(make_move(GS, move, promotion_type)))

\* C2: after make_move of a returned move, the king of the side that has
\* just moved is not attacked by any enemy piece.
C2_MoverKingNotAttacked ==
    move_log # <<>> => KingSafe(board, Opponent(SideToMove(GS)))

\* C3: get_valid_moves returns every rules-legal move of the side to move:
\* every move that follows its piece's movement rule and leaves the
\* mover's king unattacked is in the returned list.
C3_AllLegalMovesReturned ==
    LegalMoves(GS)
        \subseteq {Coordinates(m) : m \in
                     {get_valid_moves(GS).moves[k] :
                         k \in 1 .. Len(get_valid_moves(GS).moves)}}

\* C4: after every make_move, undo_move and get_valid_moves, the cached
\* king locations are the squares of the board that hold "wK" and "bK".
C4_KingLocationsMatchBoard ==
    /\ KingSquares(board, "w") = {white_king_location}
    /\ KingSquares(board, "b") = {black_king_location}

\* the sum of the values of a colour's non-king pieces on the board
MaterialOnBoard(b, colour) ==
    LET count(t) == Cardinality({s \in Squares : b[s[1]][s[2]] = <<colour, t>>})
    IN  count("Q") * values("Q") + count("R") * values("R")
        + count("B") * values("B") + count("N") * values("N")
        + count("p") * values("p")

\* C5: white_material and black_material each equal the sum of the values
\* (Q 9, R 5, B 3, N 3, p 1) of that side's non-king pieces on the board,
\* whatever piece a pawn was promoted to.
C5_MaterialMatchesBoard ==
    /\ white_material = MaterialOnBoard(board, "w")
    /\ black_material = MaterialOnBoard(board, "b")

\* C6: castle_rights_log and draw_log always have the length of move_log
\* plus one; every make_move grows the three logs by exactly one entry and
\* every undo_move on a non-empty move log shrinks them by exactly one.
C6_LogsInLockstep ==
    /\ [](/\ Len(castle_rights_log) = Len(move_log) + 1
          /\ Len(draw_log) = Len(move_log) + 1)
    /\ [][MakeMove =>
            /\ Len(move_log') = Len(move_log) + 1
            /\ Len(castle_rights_log') = Len(castle_rights_log) + 1
            /\ Len(draw_log') = Len(draw_log) + 1]_vars
    /\ [][(UndoMove /\ move_log # <<>>) =>
            /\ Len(move_log') = Len(move_log) - 1
            /\ Len(castle_rights_log') = Len(castle_rights_log) - 1
            /\ Len(draw_log') = Len(draw_log) - 1]_vars

\* a double pawn advance was made and taken back: the move log is empty
\* again and the en-passant square still names the skipped square
C6_Witness ==
    /\ move_log = <<>>
    /\ en_passant_square # <<>>
    /\ Len(castle_rights_log) = 1
    /\ Len(draw_log) = 1

RightNames ==
    {"white_king_side", "black_king_side", "white_queen_side", "black_queen_side"}

\* C7: make_move never turns a castle right from false to true; a right
\* becomes true again only in undo_move, and undo_move leaves exactly the
\* snapshot that was in force before the undone move was made (the entry
\* of castle_rights_log below the top, the top being the rights in force).
C7_RightsOnlyRevokedOrRestored ==
    /\ [](current_castle_rights = castle_rights_log[Len(castle_rights_log)])
    /\ [][MakeMove =>
            \A x \in RightNames :
                current_castle_rights'[x] => current_castle_rights[x]]_vars
    /\ [][(\E x \in RightNames :
              current_castle_rights'[x] /\ ~current_castle_rights[x])
            => UndoMove]_vars
    /\ [][(UndoMove /\ move_log # <<>>) =>
            current_castle_rights'
                = castle_rights_log[Len(castle_rights_log) - 1]]_vars

\* the white king went to d2 and nine moves were taken back: the pawn
\* advance to e4 left its en-passant square, and White's rights are back
C7_Witness ==
    /\ Len(move_log) = 2
    /\ en_passant_square = <<5, 4>>
    /\ current_castle_rights.white_king_side
    /\ current_castle_rights.white_queen_side

\* C8: after make_move of a move that takes a rook on its home corner, the
\* right of the rook's owner for that wing is false, whatever piece takes
\* it; a king move revokes both rights of its side and a rook leaving its
\* home corner revokes that wing's right.
C8_RightRevokedWithRook ==
    move_log # <<>> =>
        \A colour \in {"w", "b"} :
            /\ LastMove.piece_moved = <<colour, "K">> =>
                  /\ ~HasRight(current_castle_rights, colour, "king")
                  /\ ~HasRight(current_castle_rights, colour, "queen")
            /\ \A wing \in {"king", "queen"} :
                  /\ (/\ LastMove.piece_captured = <<colour, "R">>
                      /\ MoveEnd(LastMove) = RookCorner(colour, wing))
                        => ~HasRight(current_castle_rights, colour, wing)
                  /\ (/\ LastMove.piece_moved = <<colour, "R">>
                      /\ MoveStart(LastMove) = RookCorner(colour, wing))
                        => ~HasRight(current_castle_rights, colour, wing)

\* C9: a castle move is returned only if the mover's right for that wing
\* is set, the squares between king and rook are empty, the king is not in
\* check, and neither the square the king passes over nor the one it lands
\* on is attacked by an enemy piece, pawns and king included.
C9_CastleOnlyWhenSafe ==
    \A move \in ValidMoves :
        move.is_castle =>
            LET colour == move.piece_moved[1]
                wing == IF move.king_side_castle THEN "king" ELSE "queen"
            IN  /\ HasRight(current_castle_rights, colour, wing)
                /\ \A s \in CastleBetween(colour, wing) :
                      board[s[1]][s[2]] = <<>>
                /\ \A s \in {MoveStart(move), CastlePassing(colour, wing),
                             MoveEnd(move)} :
                      Attackers(board, s, Opponent(colour)) = {}

\* the side to move has its king attacked by two or more enemy pieces
DoubleCheck ==
    \E s \in KingSquares(board, SideToMove(GS)) :
        Cardinality(Attackers(board, s, Opponent(SideToMove(GS)))) >= 2

\* C10: when the king of the side to move is attacked by two or more enemy
\* pieces, every move get_valid_moves returns is a move of that king, and
\* none is a castle.
C10_DoubleCheckOnlyKingMoves ==
    DoubleCheck =>
        \A move \in ValidMoves :
            /\ move.piece_moved = <<SideToMove(GS), "K">>
            /\ ~move.is_castle

\* get_valid_moves has returned a non-empty list under a double check
C10_Witness == DoubleCheck /\ valid_moves # <<>>

\* the squares of the enemy pieces that attack the king, on `king`, of the
\* side to move
Checkers(king) == Attackers(board, king, Opponent(SideToMove(GS)))

\* a queen, rook or bishop stands on the square
IsSlider(square) == board[square[1]][square[2]][2] \in {"Q", "R", "B"}

\* C11: when exactly one enemy piece checks the king of the side to move,
\* every returned move of another piece takes the checking piece or ends
\* on a square strictly between the king and a checking queen, rook or
\* bishop; a knight, a pawn and an adjacent piece leave no such square.
C11_SingleCheckAnswered ==
    \A king \in KingSquares(board, SideToMove(GS)) :
        \A attacker \in Checkers(king) :
            Checkers(king) = {attacker} =>
                \A move \in ValidMoves :
                    move.piece_moved[2] # "K" =>
                        \/ MoveEnd(move) = attacker
                        \/ /\ move.is_en_passant
                           /\ <<move.start_row, move.end_column>> = attacker
                        \/ /\ IsSlider(attacker)
                           /\ MoveEnd(move) \in Between(king, attacker)

\* one piece gives check and the returned list holds a block by another
\* piece
C11_Witness ==
    \E king \in KingSquares(board, SideToMove(GS)) :
        \E attacker \in Checkers(king) :
            /\ Checkers(king) = {attacker}
            /\ \E move \in ValidMoves :
                  /\ move.piece_moved[2] # "K"
                  /\ MoveEnd(move) \in Between(king, attacker)

\* the piece on `square`, of the side to move, is the only piece between
\* its king on `king` and the enemy queen, rook or bishop on `pinner`,
\* which attacks along that line
Pinned(square, king, pinner) ==
    LET piece == board[pinner[1]][pinner[2]]
    IN  /\ StartsWith(piece, Opponent(SideToMove(GS)))
        /\ \/ OnOneLine(king, pinner) /\ piece[2] \in {"R", "Q"}
           \/ OnOneDiagonal(king, pinner) /\ piece[2] \in {"B", "Q"}
        /\ square \in Between(king, pinner)
        /\ StartsWith(board[square[1]][square[2]], SideToMove(GS))
        /\ \A s \in Between(king, pinner) \ {square} : board[s[1]][s[2]] = <<>>

\* C12: every returned move of a piece pinned to its king stays on the
\* line through the king and the pinning piece or takes the pinning piece,
\* and a pinned knight has no move in the list.
C12_PinnedPieceStaysOnLine ==
    \A king \in KingSquares(board, SideToMove(GS)) :
        \A square, pinner \in Squares :
            Pinned(square, king, pinner) =>
                \A move \in ValidMoves :
                    MoveStart(move) = square =>
                        /\ move.piece_moved[2] # "N"
                        /\ MoveEnd(move) \in Between(king, pinner) \cup {pinner}

\* the returned list holds a move of a pinned piece
C12_Witness ==
    \E king \in KingSquares(board, SideToMove(GS)) :
        \E square, pinner \in Squares :
            /\ Pinned(square, king, pinner)
            /\ \E move \in ValidMoves : MoveStart(move) = square

\* the en passant capture from `from` to `to` is in the list that
\* get_valid_moves returns in this state
EnPassantReturned(from, to) ==
    LET moves == get_valid_moves(GS).moves
    IN  \E k \in 1 .. Len(moves) :
            /\ moves[k].is_en_passant
            /\ MoveStart(moves[k]) = from
            /\ MoveEnd(moves[k]) = to

\* the pawn on `from` may take en passant to `to`; its king on `king` and
\* the enemy rook or queen on `slider` stand on the pawn's rank with both
\* pawns between them
OnRankOfEnPassant(from, to, king, slider) ==
    /\ EnPassantRule(GS, from, to)
    /\ king[1] = from[1]
    /\ slider[1] = from[1]
    /\ board[slider[1]][slider[2]]
         \in {<<Opponent(SideToMove(GS)), "R">>, <<Opponent(SideToMove(GS)), "Q">>}
    /\ {from, <<from[1], to[2]>>} \subseteq Between(king, slider)

\* the pieces between king and slider other than the two pawns
OthersBetween(from, to, king, slider) ==
    {s \in Between(king, slider) \ {from, <<from[1], to[2]>>} :
        board[s[1]][s[2]] # <<>>}

\* C13: with the capturing pawn and its king on one rank and the two pawns
\* the only pieces between the king and an enemy rook or queen on that
\* rank, the en passant capture is not returned; it is returned when
\* another piece stands between the king and that rook or queen (and the
\* capture is legal).
C13_EnPassantOnKingRank ==
    en_passant_square # <<>> =>
        \A king \in KingSquares(board, SideToMove(GS)) :
            \A from, slider \in {s \in Squares : s[1] = king[1]} :
                LET to == en_passant_square
                IN  OnRankOfEnPassant(from, to, king, slider) =>
                        IF OthersBetween(from, to, king, slider) = {}
                        THEN ~EnPassantReturned(from, to)
                        ELSE <<from[1], from[2], to[1], to[2]>>
                                \in LegalMoves(GS)
                             => EnPassantReturned(from, to)

\* the square a pawn skips in an advance of two squares
SkippedSquare(move) ==
    <<move.start_row + Forward(move.piece_moved[1]), move.start_column>>

TwoSquareAdvance(move) ==
    /\ move.piece_moved[2] = "p"
    /\ move.start_column = move.end_column
    /\ Abs(move.end_row - move.start_row) = 2

\* C14: after make_move(m), en_passant_square is the square the pawn
\* skipped if m is an advance of two squares and is empty after every
\* other move.
C14_EnPassantSquareAfterMove ==
    [][MakeMove =>
         LET move == move_log'[Len(move_log')]
         IN  en_passant_square' =
                IF TwoSquareAdvance(move) THEN SkippedSquare(move) ELSE <<>>]_vars

\* a pawn has just advanced two squares and the target is the skipped one
C14_Witness ==
    /\ move_log # <<>>
    /\ TwoSquareAdvance(LastMove)
    /\ en_passant_square = SkippedSquare(LastMove)
    /\ board[en_passant_square[1]][en_passant_square[2]] = <<>>

\* the returned en passant captures
EnPassantMoves == {move \in ValidMoves : move.is_en_passant}

\* C15: undo_move of an en passant capture puts the capturing pawn back on
\* its start square and the captured pawn back beside it, leaves the
\* capture's destination empty, and sets en_passant_square back to the
\* target that was active before the capture.
C15_UndoEnPassant ==
    \A move \in EnPassantMoves :
        LET made == make_move(GS, move, "")
            undone == undo_move(made)
        IN  /\ made.board[move.start_row][move.end_column] = <<>>
            /\ undone.board[move.start_row][move.start_column] = move.piece_moved
            /\ undone.board[move.start_row][move.end_column]
                 = board[move.start_row][move.end_column]
            /\ undone.board[move.end_row][move.end_column] = <<>>
            /\ undone.en_passant_square = en_passant_square
            /\ en_passant_square = MoveEnd(move)

\* the list holds an en passant capture of an enemy pawn
C15_Witness ==
    \E move \in EnPassantMoves :
        /\ move.piece_captured = <<Opponent(SideToMove(GS)), "p">>
        /\ en_passant_square = MoveEnd(move)

\* the newest draw tracker
NewestChecker == draw_log[Len(draw_log)]

\* C16: after make_move the half-move counter of the newest draw tracker
\* is 0 if the move took a piece (en passant included) or moved a pawn,
\* and otherwise one more than the counter of the tracker before the move.
C16_HalfMoveCounter ==
    [][MakeMove =>
         LET move == move_log'[Len(move_log')]
             taken == \/ board[move.end_row][move.end_column] # <<>>
                      \/ /\ move.is_en_passant
                         /\ board[move.start_row][move.end_column] # <<>>
         IN  draw_log'[Len(draw_log')].move_counter =
                IF taken \/ move.piece_moved[2] = "p" THEN 0
                ELSE NewestChecker.move_counter + 1]_vars

\* two plies without capture or pawn move, and then a capture by a piece
\* that is no pawn
C16_Witness ==
    /\ Len(draw_log) >= 4
    /\ draw_log[Len(draw_log) - 1].move_counter >= 2
    /\ NewestChecker.move_counter = 0
    /\ LastMove.piece_moved[2] # "p"

\* C19: undo_move on an empty move log changes nothing: board, side to
\* move, king locations, castle rights, material, en-passant square,
\* castle_rights_log and draw_log stay as they are.
C19_UndoOnEmptyLog ==
    [][(UndoMove /\ move_log = <<>>) =>
         UNCHANGED <<board, white_move, move_log, white_king_location,
                     black_king_location, current_castle_rights,
                     white_material, black_material, en_passant_square,
                     castle_rights_log, draw_log>>]_vars

\* the move log is empty after a move was taken back, and undo_move
\* leaves this state as it is
C19_Witness ==
    /\ move_log = <<>>
    /\ en_passant_square # <<>>
    /\ undo_move(GS) = GS

\* C17: check_for_draw returns true if and only if some recorded board
\* content has occurrence count at least 3 or the half-move counter has
\* reached 100.
C17_DrawIffRepetitionOrCounter ==
    drawn # <<>> =>
        drawn[1] = (\/ \E b \in DOMAIN checker.past_boards :
                          checker.past_boards[b] >= 3
                    \/ checker.move_counter >= 100)

\* how often a board content stands in the history of the logged moves
Occurrences(b) ==
    Cardinality({k \in 1 .. Len(board_history) : board_history[k] = b})

\* C18: the newest draw tracker's occurrence count of each board content
\* is the number of k in 0..len(move_log) for which the board after the
\* first k logged moves had that content; boards reached only in moves
\* taken back are not counted.
C18_OccurrenceCounts ==
    /\ Len(board_history) = Len(move_log) + 1
    /\ board_history[Len(board_history)] = board
    /\ DOMAIN NewestChecker.past_boards
         = {board_history[k] : k \in 1 .. Len(board_history)}
    /\ \A b \in DOMAIN NewestChecker.past_boards :
          NewestChecker.past_boards[b] = Occurrences(b)

\* a board stands more than once in the history, and a pawn's advance of
\* two squares was taken back
C18_Witness ==
    /\ move_log # <<>>
    /\ ~TwoSquareAdvance(LastMove)
    /\ en_passant_square # <<>>
    /\ \E b \in DOMAIN NewestChecker.past_boards :
          NewestChecker.past_boards[b] >= 2

\* C20: get_valid_moves changes nothing but in_check, pins and checks:
\* when it returns, the board, the side to move, both king locations, the
\* castle rights, the material totals, the en-passant square and the three
\* logs are what they were at the call.
C20_GetValidMovesFrame ==
    [][GetValidMoves =>
         UNCHANGED <<board, white_move, white_king_location,
                     black_king_location, current_castle_rights,
                     white_material, black_material, en_passant_square,
                     move_log, castle_rights_log, draw_log>>]_vars

\* the returned list holds king moves and a castle: the king was probed on
\* other squares and square_attacked switched the side to move, and both
\* king locations are the squares of the kings again
C20_Witness ==
    /\ \E move \in ValidMoves : move.is_castle
    /\ \E move \in ValidMoves : move.piece_moved[2] = "K" /\ ~move.is_castle
    /\ board[white_king_location[1]][white_king_location[2]] = wK
    /\ board[black_king_location[1]][black_king_location[2]] = bK

\* C21: colour_can_castle returns, for the tokens "w" and "b", whether that
\* side still has a right on either wing; for every other token it raises
\* ValueError and returns no value; the rights are as they were.
C21_ColourCanCastle ==
    [][ColourCanCastle =>
        LET turn == answer'[1]
            outcome == answer'[2]
        IN  /\ rights' = rights
            /\ turn = "w" =>
                  /\ outcome[1] = "returned"
                  /\ outcome[2] = (rights.white_king_side
                                     \/ rights.white_queen_side)
            /\ turn = "b" =>
                  /\ outcome[1] = "returned"
                  /\ outcome[2] = (rights.black_king_side
                                     \/ rights.black_queen_side)
            /\ turn \notin {"w", "b"} =>
                  /\ outcome[1] = "raised"
                  /\ outcome[2] = "ValueError"]_vars

\* the call with the token "white" has raised on an object that holds
\* rights of Black only
C21_Witness ==
    /\ answer # <<>>
    /\ answer[1] = "white"
    /\ answer[2][1] = "raised"
    /\ ~rights.white_king_side /\ ~rights.white_queen_side
    /\ rights.black_king_side

\* C22: the naming of squares is a bijection between the 64 coordinates
\* and 64 names: get_rank_file gives pairwise distinct names, column 0 is
\* file a and row 7 is rank 1, and ranks_to_rows / files_to_columns are the
\* exact inverses of rows_to_ranks / columns_to_files.
C22_CoordinateBijection ==
    /\ Cardinality({get_rank_file(s[1], s[2]) : s \in Squares})
         = dimensions * dimensions
    /\ DOMAIN rows_to_ranks = Idx /\ DOMAIN columns_to_files = Idx
    /\ \A r \in Idx : ranks_to_rows[rows_to_ranks[r]] = r
    /\ \A c \in Idx : files_to_columns[columns_to_files[c]] = c
    /\ \A k \in DOMAIN ranks_to_rows : rows_to_ranks[ranks_to_rows[k]] = k
    /\ \A f \in DOMAIN files_to_columns :
           columns_to_files[files_to_columns[f]] = f
    /\ named # <<>> =>
          LET row == named[1]
              column == named[2]
              name == named[3]
          IN  /\ files_to_columns[name[1]] = column
              /\ ranks_to_rows[name[2]] = row
              /\ (column = 0) = (name[1] = "a")
              /\ (row = 7) = (name[2] = "1")
              /\ \A s \in Squares :
                    get_rank_file(s[1], s[2]) = name => s = <<row, column>>

\* get_rank_file has named White's queen-side corner a1
C22_Witness ==
    /\ named # <<>>
    /\ named[1] = 7 /\ named[2] = 0
    /\ named[3] = <<"a", "1">>

\* the standard starting position: Black's pieces on rows 0 and 1, White's
\* on rows 7 and 6, queens on column 3 and kings on column 4
StandardPosition ==
    LET back == <<"R", "N", "B", "Q", "K", "B", "N", "R">>
    IN  \A row \in Idx, column \in Idx :
            board[row][column] =
                CASE row = 0 -> <<"b", back[column + 1]>>
                  [] row = 1 -> <<"b", "p">>
                  [] row = 6 -> <<"w", "p">>
                  [] row = 7 -> <<"w", back[column + 1]>>
                  [] OTHER -> <<>>

\* C23: a newly constructed GameState holds the standard starting position
\* (row 0 Black's back rank, row 7 White's), White to move, all four castle
\* rights set, no en-passant target, the kings located at (7, 4) and
\* (0, 4), an empty move log, and material 39 for each side, the value sum
\* of that side's pieces other than the king on that board.
C23_NewGameState ==
    [][NewGame =>
        /\ StandardPosition'
        /\ white_move' = TRUE
        /\ current_castle_rights' = CastleRights(TRUE, TRUE, TRUE, TRUE)
        /\ en_passant_square' = <<>>
        /\ white_king_location' = <<7, 4>>
        /\ black_king_location' = <<0, 4>>
        /\ move_log' = <<>>
        /\ white_material' = 39 /\ black_material' = 39
        /\ MaterialOnBoard(board', "w") = 39
        /\ MaterialOnBoard(board', "b") = 39]_vars

\* a GameState on which nothing has been called yet
C23_Witness ==
    /\ move_log = <<>>
    /\ board_history = <<board>>
    /\ valid_moves = <<>>
    /\ draw_log = <<DrawChecker(board, 0)>>
    /\ castle_rights_log = <<current_castle_rights>>
    /\ en_passant_square = <<>>

\* the piece a move takes off the board it is made on
Taken_(b, move) ==
    IF move.is_en_passant THEN b[move.start_row][move.end_column]
    ELSE b[move.end_row][move.end_column]

\* the value of a piece: queen 9, rook 5, bishop 3, knight 3, pawn 1; a
\* king is outside the material totals and the program's values give it
\* 10000
PieceValue(piece) ==
    CASE piece[2] = "Q" -> 9
      [] piece[2] = "R" -> 5
      [] piece[2] = "B" -> 3
      [] piece[2] = "N" -> 3
      [] piece[2] = "p" -> 1
      [] piece[2] = "K" -> 10000

\* what a move takes from the material of the side colour
Lost(b, move, colour) ==
    IF StartsWith(Taken_(b, move), colour)
    THEN PieceValue(Taken_(b, move)) ELSE 0

\* what a move adds to the material of the side colour
Gained(move, colour) ==
    IF /\ move.piece_moved = <<colour, "p">>
       /\ move.end_row = HomeRow(Opponent(colour))
    THEN 8 ELSE 0

\* C24: make_move changes the material totals only so: a capture (en
\* passant included) subtracts the value of the piece taken from the total
\* of the side it belonged to, a promotion adds 8 to the total of the
\* promoting side whatever piece is chosen, and nothing else changes
\* either total.
C24_MaterialChanges ==
    [][MakeMove =>
        LET move == move_log'[Len(move_log')]
        IN  /\ white_material'
                 = white_material - Lost(board, move, "w") + Gained(move, "w")
            /\ black_material'
                 = black_material - Lost(board, move, "b") + Gained(move, "b")]_vars

\* the pawns of the side to move that stand beside the pawn the last move
\* advanced two squares
BesideAdvancedPawn ==
    IF move_log # <<>> /\ TwoSquareAdvance(LastMove)
    THEN {from \in Squares :
            /\ from[1] = LastMove.end_row
            /\ Abs(from[2] - LastMove.end_column) = 1
            /\ board[from[1]][from[2]]
                 = <<Opponent(LastMove.piece_moved[1]), "p">>}
    ELSE {}

\* the board after the pawn on `from` has taken, en passant, the pawn the
\* last move advanced
AfterEnPassant(from) ==
    LET to == SkippedSquare(LastMove)
    IN  SetSquare(SetSquare(SetSquare(board, from[1], from[2], <<>>),
                            LastMove.end_row, LastMove.end_column, <<>>),
                  to[1], to[2], board[from[1]][from[2]])

\* C25: immediately after a two-square pawn advance that places the pawn
\* beside an enemy pawn on its rank, get_valid_moves returns that enemy
\* pawn's en passant capture to the skipped square unless the capture
\* exposes the king; after make_move of the capture the destination holds
\* the capturing pawn, and its start square and the captured pawn's square
\* are empty.
C25_EnPassantOffered ==
    \A from \in BesideAdvancedPawn :
        LET to == SkippedSquare(LastMove)
            moves == get_valid_moves(GS).moves
            captures == {k \in 1 .. Len(moves) :
                            /\ moves[k].is_en_passant
                            /\ MoveStart(moves[k]) = from
                            /\ MoveEnd(moves[k]) = to}
        IN  /\ KingSafe(AfterEnPassant(from), SideToMove(GS)) => captures # {}
            /\ \A k \in captures :
                  make_move(GS, moves[k], "").board = AfterEnPassant(from)

\* the side to move may castle on the wing, by the rules
MayCastle(wing) ==
    CastleRule(GS, <<HomeRow(SideToMove(GS)), 4>>,
               CastleDestination(SideToMove(GS), wing))

\* the castles on the wing in a list of moves
CastlesIn(moves, wing) ==
    {k \in 1 .. Len(moves) :
        /\ moves[k].is_castle
        /\ MoveStart(moves[k]) = <<HomeRow(SideToMove(GS)), 4>>
        /\ MoveEnd(moves[k]) = CastleDestination(SideToMove(GS), wing)}

\* the board after the side to move has castled on the wing: the king two
\* files toward the rook, the rook on the square the king passed over
AfterCastle(wing) ==
    LET colour == SideToMove(GS)
        king == <<HomeRow(colour), 4>>
        corner == RookCorner(colour, wing)
        to == CastleDestination(colour, wing)
        passing == CastlePassing(colour, wing)
    IN  [row \in Idx |-> [column \in Idx |->
            IF <<row, column>> \in {king, corner} THEN <<>>
            ELSE IF <<row, column>> = to THEN <<colour, "K">>
            ELSE IF <<row, column>> = passing THEN <<colour, "R">>
            ELSE board[row][column]]]

\* C26: where the side to move has king and both rooks at home with both
\* rights, the squares between them empty, the king not in check and no
\* square it passes over or lands on attacked, get_valid_moves returns the
\* castle on either wing; make_move of such a castle puts the king two
\* files toward the rook and the rook on the square the king passed over.
C26_BothCastles ==
    LET moves == get_valid_moves(GS).moves
    IN  /\ MayCastle("king") /\ MayCastle("queen") =>
              CastlesIn(moves, "king") # {} /\ CastlesIn(moves, "queen") # {}
        /\ \A wing \in {"king", "queen"} :
              MayCastle(wing) =>
                  \A k \in CastlesIn(moves, wing) :
                      make_move(GS, moves[k], "").board = AfterCastle(wing)

\* the list just returned holds the castles on both wings
C26_Witness ==
    /\ MayCastle("king") /\ MayCastle("queen")
    /\ CastlesIn(valid_moves, "king") # {}
    /\ CastlesIn(valid_moves, "queen") # {}

\* the squares of the entries of a list of checks
CheckSquares(found) == {<<found[k][1], found[k][2]>> : k \in 1 .. Len(found)}

\* C27: check_for_pins_checks reports in_check exactly when an enemy piece
\* attacks the king of the side to move (rook or queen on a clear
\* orthogonal line, bishop or queen on a clear diagonal, knight at a knight
\* offset, pawn on the adjacent diagonal square in its capture direction,
\* adjacent king), with one entry in checks for each attacker; a piece
\* whose line to the king holds a friendly piece is no attacker.
C27_ChecksAreTheAttackers ==
    \A king \in KingSquares(board, SideToMove(GS)) :
        LET found == check_for_pins_checks(GS)
        IN  /\ found.in_check = (Checkers(king) # {})
            /\ CheckSquares(found.checks) = Checkers(king)
            /\ Len(found.checks) = Cardinality(Checkers(king))

\* get_valid_moves has reported a check by a pawn
C27_Witness ==
    /\ in_check
    /\ valid_moves # <<>>
    /\ \E s \in CheckSquares(checks) : board[s[1]][s[2]][2] = "p"
    /\ \A king \in KingSquares(board, SideToMove(GS)) :
          CheckSquares(checks) = Checkers(king)

\* C28: when the only attacker of the king is a pawn that has just
\* advanced two squares, every en passant capture of that pawn that leaves
\* the king unattacked is in the list returned by get_valid_moves.
C28_EnPassantTakesChecker ==
    \A king \in KingSquares(board, SideToMove(GS)) :
        \A from \in BesideAdvancedPawn :
            /\ Checkers(king) = {MoveEnd(LastMove)}
            /\ KingSafe(AfterEnPassant(from), SideToMove(GS))
            => EnPassantReturned(from, SkippedSquare(LastMove))

\* the squares the pawn on `square` may advance to: the square ahead when
\* empty, and from its starting rank the second square when both are empty
Advances(square) ==
    LET f == Forward(SideToMove(GS))
        one == <<square[1] + f, square[2]>>
        two == <<square[1] + 2 * f, square[2]>>
    IN  IF ~OnBoard(one[1], one[2]) \/ board[one[1]][one[2]] # <<>> THEN {}
        ELSE IF /\ square[1] = HomeRow(SideToMove(GS)) + f
                /\ board[two[1]][two[2]] = <<>>
        THEN {one, two}
        ELSE {one}

\* C29: a pawn pinned along its own file keeps its advances onto empty
\* squares (single, and double from the starting rank) in the list returned
\* by get_valid_moves, with its king behind it and with its king ahead of
\* it on that file.
C29_FilePinnedPawnAdvances ==
    \A king \in KingSquares(board, SideToMove(GS)) :
        \A square, pinner \in {s \in Squares : s[2] = king[2]} :
            /\ Pinned(square, king, pinner)
            /\ board[square[1]][square[2]] = <<SideToMove(GS), "p">>
            /\ Checkers(king) = {}
            => \A to \in Advances(square) :
                  \E k \in 1 .. Len(get_valid_moves(GS).moves) :
                      Coordinates(get_valid_moves(GS).moves[k])
                        = <<square[1], square[2], to[1], to[2]>>

\* a list of moves as the set of their start squares, end squares and
\* en passant / castle flags
MoveKeys(moves) ==
    {<<MoveStart(moves[k]), MoveEnd(moves[k]), moves[k].is_en_passant,
       moves[k].is_castle>> : k \in 1 .. Len(moves)}

\* C30: in every state reached by make_move and undo_move of returned
\* moves, for every move m of the list get_valid_moves has returned, the
\* set of moves get_valid_moves returns after make_move(m) and undo_move()
\* is the set it returned before.
C30_ValidMovesAfterMakeUndo ==
    \A m \in ValidMoves :
        LET promotion_type == IF m.is_pawn_promotion THEN "Q" ELSE ""
            back == undo_move(make_move(GS, m, promotion_type))
        IN  MoveKeys(get_valid_moves(back).moves) = MoveKeys(valid_moves)

\* C31: in every state reached by make_move and undo_move of returned
\* moves, every move get_valid_moves returns has piece_captured empty or a
\* piece of the opponent other than its king, and the board holds exactly
\* one white king and one black king.
C31_NoKingTaken ==
    LET moves == get_valid_moves(GS).moves
    IN  /\ \A k \in 1 .. Len(moves) :
              \/ moves[k].piece_captured = <<>>
              \/ /\ moves[k].piece_captured[1] = Opponent(SideToMove(GS))
                 /\ moves[k].piece_captured[2] # "K"
        /\ Cardinality(KingSquares(board, "w")) = 1
        /\ Cardinality(KingSquares(board, "b")) = 1

\* C32: in every state reached by make_move of returned moves, a castle is
\* returned only when a rook of the mover's colour stands on the corner of
\* that wing.
C32_CastleNeedsRook ==
    LET moves == get_valid_moves(GS).moves
        colour == SideToMove(GS)
    IN  \A wing \in {"king", "queen"} :
            CastlesIn(moves, wing) # {} =>
                board[RookCorner(colour, wing)[1]][RookCorner(colour, wing)[2]]
                  = <<colour, "R">>

\* C33: once check_for_draw is true with 100 plies counted since the last
\* capture or pawn move, it is still true after a further move that neither
\* captures nor moves a pawn.
C33_FiftyMoveDrawStays ==
    [][/\ UpdateChecker
       /\ checker.move_counter >= DrawMoveCounter
       /\ check_for_draw(checker)
       => check_for_draw(checker')]_vars

====
